---- MODULE Spec2Model ----
(***************************************************************************)
(* Model of drivers/gpu/drm/msm/hdmi-staging/sde_hdmi.h in the             *)
(* configuration where CONFIG_DRM_SDE_HDMI is not defined: the twelve      *)
(* static inline entry points of the #else branch, the memory their        *)
(* pointer arguments refer to, a sequential caller and a set of concurrent *)
(* calling contexts.                                                       *)
(***************************************************************************)
EXTENDS Integers, FiniteSets, Sequences, TLC

VARIABLES mem, last, prev, ctx

vars == <<mem, last, prev, ctx>>

(* ----------------------------- bounds --------------------------------- *)

\* largest max_display_count a caller passes to sde_hdmi_get_displays
MaxDisplayCount == 2

\* largest num_of_modes of a non pluggable display
MaxModes == 1

\* number of concurrent calling contexts
NumContexts == 2

(* ----------------------------- pointers ------------------------------- *)

\* A pointer is 0 (the null pointer) or the index of the object it refers
\* to; there is one object of each pointed-to type.
Ptr == 0..1

Contexts == 1..NumContexts

(* ------------------------------ memory -------------------------------- *)

\* struct sde_hdmi, the fields the interface documents.  display_lock is
\* the owning context (0: unlocked), hpd_work is TRUE while the work item
\* is queued, ctrl is the struct sde_hdmi_ctrl controller handle.
SdeHdmi(non_pluggable, num_of_modes, connected, is_tpg_enabled) ==
    [ display_lock   |-> 0,
      ctrl           |-> 0,
      non_pluggable  |-> non_pluggable,
      num_of_modes   |-> num_of_modes,
      mode_list      |-> [i \in 1..num_of_modes |-> i],
      connected      |-> connected,
      is_tpg_enabled |-> is_tpg_enabled,
      hpd_work       |-> FALSE ]

\* The displays a caller can hand in: num_of_modes and mode_list are only
\* populated for a non pluggable display.
InitDisplays ==
    { SdeHdmi(np, n, c, t) :
        np \in BOOLEAN, n \in 0..MaxModes, c \in BOOLEAN, t \in BOOLEAN }
    \ { SdeHdmi(FALSE, n, c, t) :
        n \in 1..MaxModes, c \in BOOLEAN, t \in BOOLEAN }

\* Everything the pointer arguments of the entry points can refer to.
InitMem ==
    { [ display       |-> d,
        display_array |-> [i \in 1..MaxDisplayCount |-> 0],
        info          |-> "caller",
        connector     |-> [status |-> "connector_status_unknown",
                           probed_modes |-> 0],
        mode          |-> [status |-> "MODE_UNVERIFIED"],
        enc           |-> "caller" ] : d \in InitDisplays }

(* --------------------------- entry points ----------------------------- *)

\* Each entry point maps its arguments and the memory m to the value it
\* returns and the memory it leaves behind.

sde_hdmi_get_num_of_displays(m) ==
    [ret |-> 0, mem |-> m]

\* Variant: reports one display whenever the caller's array has room.
sde_hdmi_get_displays_reports_one(display_array, max_display_count, m) ==
    [ret |-> IF display_array # 0 /\ max_display_count > 0 THEN 1 ELSE 0,
     mem |-> m]

sde_hdmi_get_displays(display_array, max_display_count, m) ==
    [ret |-> 0, mem |-> m]

sde_hdmi_connector_pre_deinit(connector, display, m) ==
    [ret |-> 0, mem |-> m]

\* Variant: fills in the info structure it is handed.
sde_hdmi_connector_post_init_fills_info(connector, info, display, m) ==
    [ret |-> 0,
     mem |-> IF info # 0 THEN [m EXCEPT !.info = "hdmi"] ELSE m]

sde_hdmi_connector_post_init(connector, info, display, m) ==
    [ret |-> 0, mem |-> m]

\* Variant: reports the display's connected field.
sde_hdmi_connector_detect_reads_connected(connector, force, display, m) ==
    [ret |-> IF display # 0 /\ m.display.connected
             THEN "connector_status_connected"
             ELSE "connector_status_disconnected",
     mem |-> m]

sde_hdmi_connector_detect(connector, force, display, m) ==
    [ret |-> "connector_status_disconnected", mem |-> m]

\* Variant: adds the mode list of a non pluggable display to the connector.
sde_hdmi_connector_get_modes_adds(connector, display, m) ==
    IF connector # 0 /\ display # 0 /\ m.display.non_pluggable
    THEN [ret |-> m.display.num_of_modes,
          mem |-> [m EXCEPT !.connector.probed_modes =
                              @ + m.display.num_of_modes]]
    ELSE [ret |-> 0, mem |-> m]

sde_hdmi_connector_get_modes(connector, display, m) ==
    [ret |-> 0, mem |-> m]

\* Variant: rejects a null mode.
sde_hdmi_mode_valid_rejects_null(connector, mode, display, m) ==
    [ret |-> IF mode = 0 THEN "MODE_ERROR" ELSE "MODE_OK", mem |-> m]

sde_hdmi_mode_valid(connector, mode, display, m) ==
    [ret |-> "MODE_OK", mem |-> m]

\* Variant: takes a reference to the controller and keeps it.
sde_hdmi_dev_init_acquires(display, m) ==
    [ret |-> 0,
     mem |-> IF display # 0 THEN [m EXCEPT !.display.ctrl = 1] ELSE m]

sde_hdmi_dev_init(display, m) ==
    [ret |-> 0, mem |-> m]

\* Variant: fails with -EINVAL unless the call before it was
\* sde_hdmi_dev_init.
sde_hdmi_dev_deinit_needs_init(display, m) ==
    [ret |-> IF last.call.fn = "sde_hdmi_dev_init" THEN 0 ELSE -22,
     mem |-> m]

sde_hdmi_dev_deinit(display, m) ==
    [ret |-> 0, mem |-> m]

sde_hdmi_drm_init(display, enc, m) ==
    [ret |-> 0, mem |-> m]

sde_hdmi_drm_deinit(display, m) ==
    [ret |-> 0, mem |-> m]

\* Variant: fails with -EINVAL on a null argument.
sde_hdmi_get_info_einval(info, display, m) ==
    [ret |-> IF info = 0 \/ display = 0 THEN -22 ELSE 0, mem |-> m]

sde_hdmi_get_info(info, display, m) ==
    [ret |-> 0, mem |-> m]

\* Variant: connector detect runs under display_lock.
LocksTaken_detect(fn) ==
    IF fn = "sde_hdmi_connector_detect" THEN {"display_lock"} ELSE {}

\* The locks an entry point takes for the duration of its body.
LocksTaken(fn) == {}

(* ------------------------------ calls --------------------------------- *)

NoCall == [fn |-> "none"]

NoRecord == [call |-> NoCall, ret |-> 0, pre |-> NoCall, post |-> NoCall]

\* Run one call c on memory m.
Exec(c, m) ==
    CASE c.fn = "sde_hdmi_get_num_of_displays" ->
            sde_hdmi_get_num_of_displays(m)
      [] c.fn = "sde_hdmi_get_displays" ->
            sde_hdmi_get_displays(c.display_array, c.max_display_count, m)
      [] c.fn = "sde_hdmi_connector_pre_deinit" ->
            sde_hdmi_connector_pre_deinit(c.connector, c.display, m)
      [] c.fn = "sde_hdmi_connector_post_init" ->
            sde_hdmi_connector_post_init(c.connector, c.info, c.display, m)
      [] c.fn = "sde_hdmi_connector_detect" ->
            sde_hdmi_connector_detect(c.connector, c.force, c.display, m)
      [] c.fn = "sde_hdmi_connector_get_modes" ->
            sde_hdmi_connector_get_modes(c.connector, c.display, m)
      [] c.fn = "sde_hdmi_mode_valid" ->
            sde_hdmi_mode_valid(c.connector, c.mode, c.display, m)
      [] c.fn = "sde_hdmi_dev_init" ->
            sde_hdmi_dev_init(c.display, m)
      [] c.fn = "sde_hdmi_dev_deinit" ->
            sde_hdmi_dev_deinit(c.display, m)
      [] c.fn = "sde_hdmi_drm_init" ->
            sde_hdmi_drm_init(c.display, c.enc, m)
      [] c.fn = "sde_hdmi_drm_deinit" ->
            sde_hdmi_drm_deinit(c.display, m)
      [] c.fn = "sde_hdmi_get_info" ->
            sde_hdmi_get_info(c.info, c.display, m)

\* The sequential caller completes call c: the call before it moves to
\* prev, and last records the call, its result and the memory around it.
Complete(c) ==
    LET r == Exec(c, mem) IN
    /\ \A l \in LocksTaken(c.fn) : mem.display[l] = 0
    /\ mem' = r.mem
    /\ last' = [call |-> c, ret |-> r.ret, pre |-> mem, post |-> r.mem]
    /\ prev' = last
    /\ UNCHANGED ctx

Call_get_num_of_displays ==
    Complete([fn |-> "sde_hdmi_get_num_of_displays"])

Call_get_displays ==
    \E a \in Ptr, n \in 0..MaxDisplayCount :
        Complete([fn |-> "sde_hdmi_get_displays",
                  display_array |-> a, max_display_count |-> n])

Call_connector_pre_deinit ==
    \E c \in Ptr, d \in Ptr :
        Complete([fn |-> "sde_hdmi_connector_pre_deinit",
                  connector |-> c, display |-> d])

Call_connector_post_init ==
    \E c \in Ptr, i \in Ptr, d \in Ptr :
        Complete([fn |-> "sde_hdmi_connector_post_init",
                  connector |-> c, info |-> i, display |-> d])

Call_connector_detect ==
    \E c \in Ptr, f \in BOOLEAN, d \in Ptr :
        Complete([fn |-> "sde_hdmi_connector_detect",
                  connector |-> c, force |-> f, display |-> d])

Call_connector_get_modes ==
    \E c \in Ptr, d \in Ptr :
        Complete([fn |-> "sde_hdmi_connector_get_modes",
                  connector |-> c, display |-> d])

Call_mode_valid ==
    \E c \in Ptr, mo \in Ptr, d \in Ptr :
        Complete([fn |-> "sde_hdmi_mode_valid",
                  connector |-> c, mode |-> mo, display |-> d])

Call_dev_init ==
    \E d \in Ptr :
        Complete([fn |-> "sde_hdmi_dev_init", display |-> d])

Call_dev_deinit ==
    \E d \in Ptr :
        Complete([fn |-> "sde_hdmi_dev_deinit", display |-> d])

Call_drm_init ==
    \E d \in Ptr, e \in Ptr :
        Complete([fn |-> "sde_hdmi_drm_init", display |-> d, enc |-> e])

Call_drm_deinit ==
    \E d \in Ptr :
        Complete([fn |-> "sde_hdmi_drm_deinit", display |-> d])

Call_get_info ==
    \E i \in Ptr, d \in Ptr :
        Complete([fn |-> "sde_hdmi_get_info", info |-> i, display |-> d])

IdleCtx == [pc |-> "idle", call |-> NoCall, ret |-> 0]

Init ==
    /\ mem \in InitMem
    /\ last = NoRecord
    /\ prev = NoRecord
    /\ ctx = [t \in Contexts |-> IdleCtx]

Next ==
    \/ Call_get_num_of_displays
    \/ Call_get_displays
    \/ Call_connector_pre_deinit
    \/ Call_connector_post_init
    \/ Call_connector_detect
    \/ Call_connector_get_modes
    \/ Call_mode_valid
    \/ Call_dev_init
    \/ Call_dev_deinit
    \/ Call_drm_init
    \/ Call_drm_deinit
    \/ Call_get_info

Spec == Init /\ [][Next]_vars

(* ----------------------- concurrent contexts -------------------------- *)

\* The calls concurrent contexts make on the one display, with valid
\* pointers.
ConcCalls ==
    { [fn |-> "sde_hdmi_get_num_of_displays"] }
    \cup { [fn |-> "sde_hdmi_get_displays",
            display_array |-> 1, max_display_count |-> n] :
           n \in 0..MaxDisplayCount }
    \cup { [fn |-> "sde_hdmi_connector_pre_deinit",
            connector |-> 1, display |-> 1],
           [fn |-> "sde_hdmi_connector_post_init",
            connector |-> 1, info |-> 1, display |-> 1],
           [fn |-> "sde_hdmi_connector_get_modes",
            connector |-> 1, display |-> 1],
           [fn |-> "sde_hdmi_mode_valid",
            connector |-> 1, mode |-> 1, display |-> 1],
           [fn |-> "sde_hdmi_dev_init", display |-> 1],
           [fn |-> "sde_hdmi_dev_deinit", display |-> 1],
           [fn |-> "sde_hdmi_drm_init", display |-> 1, enc |-> 1],
           [fn |-> "sde_hdmi_drm_deinit", display |-> 1],
           [fn |-> "sde_hdmi_get_info", info |-> 1, display |-> 1] }
    \cup { [fn |-> "sde_hdmi_connector_detect",
            connector |-> 1, force |-> f, display |-> 1] :
           f \in BOOLEAN }

\* Context t enters call c: it waits for the locks the entry point takes
\* and holds them while it is inside.
Enter(t, c) ==
    /\ ctx[t].pc # "called"
    /\ \A l \in LocksTaken(c.fn) : mem.display[l] = 0
    /\ mem' = [mem EXCEPT !.display =
                 [f \in DOMAIN mem.display |->
                    IF f \in LocksTaken(c.fn) THEN t ELSE mem.display[f]]]
    /\ ctx' = [ctx EXCEPT ![t] = [pc |-> "called", call |-> c, ret |-> 0]]
    /\ UNCHANGED <<last, prev>>

\* Context t runs the body of the call it entered and returns.
Leave(t) ==
    /\ ctx[t].pc = "called"
    /\ LET r == Exec(ctx[t].call, mem) IN
       /\ mem' = [r.mem EXCEPT !.display =
                    [f \in DOMAIN r.mem.display |->
                       IF f \in LocksTaken(ctx[t].call.fn)
                       THEN 0 ELSE r.mem.display[f]]]
       /\ ctx' = [ctx EXCEPT ![t] = [pc |-> "returned",
                                     call |-> ctx[t].call,
                                     ret |-> r.ret]]
    /\ UNCHANGED <<last, prev>>

CtxEnter == \E t \in Contexts, c \in ConcCalls : Enter(t, c)

CtxLeave == \E t \in Contexts : Leave(t)

NextConc ==
    \/ CtxEnter
    \/ CtxLeave

SpecConc == Init /\ [][NextConc]_vars

(* ------------------------------ claims -------------------------------- *)

IntEntryPoints ==
    { "sde_hdmi_get_num_of_displays", "sde_hdmi_get_displays",
      "sde_hdmi_connector_pre_deinit", "sde_hdmi_connector_post_init",
      "sde_hdmi_connector_get_modes", "sde_hdmi_dev_init",
      "sde_hdmi_dev_deinit", "sde_hdmi_drm_init", "sde_hdmi_drm_deinit",
      "sde_hdmi_get_info" }

LifecycleEntryPoints ==
    { "sde_hdmi_dev_init", "sde_hdmi_dev_deinit", "sde_hdmi_drm_init",
      "sde_hdmi_drm_deinit", "sde_hdmi_connector_post_init",
      "sde_hdmi_connector_pre_deinit" }

\* C1: every int/u32-returning entry point returns 0, never a negative
\* error code, for every combination of arguments, null pointers included.
C1_IntEntryPointsReturnZero ==
    /\ last.call.fn \in IntEntryPoints => last.ret = 0
    /\ prev.call.fn \in IntEntryPoints => prev.ret = 0

\* sde_hdmi_get_info has returned 0 on two null pointers.
C1_Witness ==
    /\ last.call = [fn |-> "sde_hdmi_get_info", info |-> 0, display |-> 0]
    /\ last.ret = 0

\* C2: sde_hdmi_connector_detect returns connector_status_disconnected
\* whatever force and the display's connected and non_pluggable fields are.
C2_DetectDisconnected ==
    last.call.fn = "sde_hdmi_connector_detect"
        => last.ret = "connector_status_disconnected"

\* A forced detect on a connected, non pluggable display has reported
\* disconnected.
C2_Witness ==
    /\ last.call = [fn |-> "sde_hdmi_connector_detect",
                    connector |-> 1, force |-> TRUE, display |-> 1]
    /\ last.pre.display.connected
    /\ last.pre.display.non_pluggable
    /\ last.ret = "connector_status_disconnected"

\* C3: sde_hdmi_mode_valid returns MODE_OK for every mode, connector and
\* display.
C3_ModeValidOk ==
    last.call.fn = "sde_hdmi_mode_valid" => last.ret = "MODE_OK"

\* A null mode has been accepted.
C3_Witness ==
    /\ last.call.fn = "sde_hdmi_mode_valid"
    /\ last.call.mode = 0
    /\ last.ret = "MODE_OK"

\* C4: the value sde_hdmi_get_displays returns exceeds neither
\* max_display_count nor what sde_hdmi_get_num_of_displays returns, and
\* both functions return 0 for every max_display_count, 0 included.
C4_DisplaysBounded ==
    /\ last.call.fn = "sde_hdmi_get_displays" =>
          /\ last.ret = 0
          /\ last.ret <= last.call.max_display_count
          /\ last.ret <= sde_hdmi_get_num_of_displays(last.post).ret
          /\ prev.call.fn = "sde_hdmi_get_num_of_displays"
                => last.ret <= prev.ret
    /\ last.call.fn = "sde_hdmi_get_num_of_displays" => last.ret = 0

\* sde_hdmi_get_displays was asked for a full array right after
\* sde_hdmi_get_num_of_displays.
C4_Witness ==
    /\ prev.call.fn = "sde_hdmi_get_num_of_displays"
    /\ last.call = [fn |-> "sde_hdmi_get_displays", display_array |-> 1,
                    max_display_count |-> MaxDisplayCount]
    /\ last.ret = 0

\* The resources memory m shows as held for the display.
ResourcesHeld(m) ==
    { f \in {"ctrl", "display_lock"} : m.display[f] # 0 }
    \cup { f \in {"hpd_work"} : m.display[f] }

\* C5: sde_hdmi_dev_init followed by sde_hdmi_dev_deinit on a display
\* leaves the resources held for it as they were before the init, and both
\* calls return 0.
C5_InitDeinitRoundTrip ==
    ( /\ prev.call.fn = "sde_hdmi_dev_init"
      /\ last.call.fn = "sde_hdmi_dev_deinit"
      /\ last.call.display = prev.call.display )
    => /\ ResourcesHeld(last.post) = ResourcesHeld(prev.pre)
       /\ last.post.display = prev.pre.display
       /\ prev.ret = 0
       /\ last.ret = 0

\* An init and deinit pair on the display has completed.
C5_Witness ==
    /\ prev.call = [fn |-> "sde_hdmi_dev_init", display |-> 1]
    /\ last.call = [fn |-> "sde_hdmi_dev_deinit", display |-> 1]
    /\ mem = prev.pre

\* C6: no entry point writes through a pointer argument: every step leaves
\* the display, the display array, the info structure, the connector, the
\* mode and the encoder unchanged.
C6_NoWrites == [][mem' = mem]_vars

\* sde_hdmi_connector_post_init has run on three valid pointers.
C6_Witness ==
    /\ last.call = [fn |-> "sde_hdmi_connector_post_init",
                    connector |-> 1, info |-> 1, display |-> 1]
    /\ last.post = last.pre

\* Every lifecycle call a caller can make next.
LifecycleCalls ==
    { [fn |-> f, display |-> d] :
        f \in {"sde_hdmi_dev_init", "sde_hdmi_dev_deinit",
               "sde_hdmi_drm_deinit"}, d \in Ptr }
    \cup { [fn |-> "sde_hdmi_drm_init", display |-> d, enc |-> e] :
           d \in Ptr, e \in Ptr }
    \cup { [fn |-> "sde_hdmi_connector_pre_deinit",
            connector |-> c, display |-> d] : c \in Ptr, d \in Ptr }
    \cup { [fn |-> "sde_hdmi_connector_post_init",
            connector |-> c, info |-> i, display |-> d] :
           c \in Ptr, i \in Ptr, d \in Ptr }

\* C7: the lifecycle entry points return 0 in any order and with any
\* repetition; what a call returns does not depend on the call before it.
C7_LifecycleUnordered ==
    /\ last.call.fn \in LifecycleEntryPoints => last.ret = 0
    /\ prev.call.fn \in LifecycleEntryPoints => prev.ret = 0
    /\ last.call = prev.call => last.ret = prev.ret
    /\ \A c \in LifecycleCalls : Exec(c, mem).ret = 0

\* sde_hdmi_dev_deinit ran first, before any init, and sde_hdmi_dev_init
\* after it.
C7_Witness ==
    /\ prev.call = [fn |-> "sde_hdmi_dev_deinit", display |-> 1]
    /\ prev.ret = 0
    /\ last.call = [fn |-> "sde_hdmi_dev_init", display |-> 1]
    /\ last.ret = 0

\* C8: the connector is never reported connected and never gains a mode,
\* whatever was called before.
C8_NeverConnectedNoModes ==
    /\ mem.connector.probed_modes = 0
    /\ mem.connector.status # "connector_status_connected"
    /\ last.call.fn = "sde_hdmi_connector_get_modes" =>
          /\ last.ret = 0
          /\ last.post.connector = last.pre.connector
    /\ last.call.fn = "sde_hdmi_connector_detect" =>
          last.ret # "connector_status_connected"

\* sde_hdmi_mode_valid accepted a mode of a non pluggable display with a
\* mode list, and sde_hdmi_connector_get_modes then added none.
C8_Witness ==
    /\ prev.call.fn = "sde_hdmi_mode_valid"
    /\ prev.ret = "MODE_OK"
    /\ last.call = [fn |-> "sde_hdmi_connector_get_modes",
                    connector |-> 1, display |-> 1]
    /\ mem.display.non_pluggable
    /\ mem.display.num_of_modes > 0
    /\ last.ret = 0

\* What a call returns when the calls run one after the other.
SequentialRet(fn) ==
    CASE fn = "sde_hdmi_connector_detect" -> "connector_status_disconnected"
      [] fn = "sde_hdmi_mode_valid" -> "MODE_OK"
      [] OTHER -> 0

\* C9: no entry point takes display_lock or queues hpd_work, a context is
\* never made to wait, and every call returns what it returns sequentially.
C9_NoLockNoBlocking ==
    /\ [](\A t \in Contexts :
            /\ ctx[t].pc = "called" => ENABLED Leave(t)
            /\ ctx[t].pc # "called" =>
                  \A c \in ConcCalls : ENABLED Enter(t, c)
            /\ ctx[t].pc = "returned" =>
                  ctx[t].ret = SequentialRet(ctx[t].call.fn))
    /\ [][/\ mem'.display.display_lock = mem.display.display_lock
          /\ mem'.display.hpd_work = mem.display.hpd_work]_vars

\* One context is inside connector detect while another has completed
\* sde_hdmi_dev_init.
C9_Witness ==
    /\ ctx[1].pc = "called"
    /\ ctx[1].call.fn = "sde_hdmi_connector_detect"
    /\ ctx[2].pc = "returned"
    /\ ctx[2].call.fn = "sde_hdmi_dev_init"
    /\ ctx[2].ret = 0

====
